---- MODULE Spec2Model ----
(***************************************************************************)
(* Water ATM management system (src/Water_ATM.c): the user registry, the   *)
(* wallet, the pass system, the discount and fee logic of purchase_water,  *)
(* the transaction ledger and the running analytics.                       *)
(*                                                                         *)
(* Units.  Money is counted in paise (1/100 rupee) and water in            *)
(* centilitres (1/100 litre), so that the program's decimal literals are   *)
(* integers: 2.0 rupees per litre is 2 paise per centilitre, DIGITAL_FEE   *)
(* 1.0 is 100, 10 litres is 1000.  Every quantity the operations are       *)
(* offered (LitersChoices, AmountChoices) lies on the grid where the       *)
(* program's percentages (10%, 5%, 2%) are whole numbers of paise.         *)
(* Time is time(NULL) in seconds, counted from the start of the process.   *)
(***************************************************************************)
EXTENDS Integers, Sequences, FiniteSets

\* ---------------- program constants (src/Water_ATM.c:21-28) -------------
WATER_PRICE_PER_LITER == 2
DIGITAL_FEE == 100
MIN_BULK_LITERS == 1000
LOYALTY_THRESHOLD == 5000
WEEKLY_PASS_COST == 1500
MONTHLY_PASS_COST == 5000
SECONDS_PER_DAY == 24 * 60 * 60

\* Capacities of the two static arrays.  The program has 1000 and 5000; the
\* model keeps the capacity checks and scales the capacities down so that a
\* full registry and a full ledger are reached (and exceeded) in a few steps.
MAX_USERS == 2
MAX_TRANSACTIONS == 2

\* ---------------- bounds of the exploration -----------------------------
MaxPurchases == 2      \* completed purchases in one run of Spec
MaxLedgerPurchases == 3 \* the same in SpecLedger (> MAX_TRANSACTIONS)
MaxPasses == 2         \* passes sold in one run
MaxWallet == 10200     \* top-ups stop when the wallets together would hold more
MaxBoundaryWallet == 20400 \* the same in SpecBoundary (two top-ups)
MaxDays == 7           \* the clock stops advancing after this many days
MaxCallers == 2        \* callers inside purchase_water at once (SpecConcurrent)

\* ---------------- inputs offered to the operations ----------------------
LitersChoices == {0, 250, 500, 5000}
PaymentChoices == {1, 2, 3}
PassTypeChoices == {1, 2, 3}
AmountChoices == {0, 10000}
TickDays == {7}
UserIdChoices == {1, MAX_USERS + 1}  \* the first customer, and nobody's id
AllUserIds == 1..(MAX_USERS + 1)     \* every id of a full registry, and nobody's

\* in_flight holds, for each caller, the locals of a call of purchase_water
\* that has passed the balance test and has not deducted yet (NoCall when the
\* caller is not inside such a call).  The program itself has one caller who
\* runs every call to its end: there in_flight never changes.
VARIABLES users, transactions, stats, now, receipt, in_flight

vars == <<users, transactions, stats, now, receipt, in_flight>>

Callers == 1..MaxCallers
NoCall ==
    [user_id |-> 0, liters |-> 0, discount |-> 0, fee |-> 0,
     final_amount |-> 0, pass_valid |-> FALSE, seen_balance |-> 0]

user_count == Len(users)
transaction_count == Len(transactions)

\* The locals of the last call, as its receipt or error message shows them.
NoReceipt ==
    [op |-> "none", outcome |-> "none", user_id |-> 0, liters |-> 0,
     payment_method |-> "", base_cost |-> 0, discount |-> 0, fee |-> 0,
     final_amount |-> 0, pass_valid |-> FALSE, pass_type |-> 0]

Init ==
    /\ users = <<>>
    /\ transactions = <<>>
    /\ stats = [total_revenue |-> 0, total_fees_collected |-> 0,
                total_discounts_given |-> 0, cash_transactions |-> 0,
                digital_transactions |-> 0, bulk_purchases |-> 0,
                pass_holders |-> 0]
    /\ now = 0
    /\ receipt = NoReceipt
    /\ in_flight = [k \in Callers |-> NoCall]

\* Sum of a sequence of numbers; money held in all wallets together (the
\* latter only bounds the top-ups that are offered, see MaxWallet)
RECURSIVE SumSeq(_)
SumSeq(s) == IF s = <<>> THEN 0 ELSE Head(s) + SumSeq(Tail(s))

TotalWallet(us) == SumSeq([k \in 1..Len(us) |-> us[k].wallet_balance])

\* x * p / 100 for the program's  x * 0.10, x * 0.05, x * 0.02
Percent(x, p) == (x * p) \div 100

\* Variant of find_user with a plausible slip: a search that finds nothing
\* returns the last record instead of NULL.
find_user_fallback(user_id) ==
    IF \E i \in 1..user_count : users[i].user_id = user_id
    THEN CHOOSE i \in 1..user_count :
            /\ users[i].user_id = user_id
            /\ \A j \in 1..(i - 1) : users[j].user_id # user_id
    ELSE user_count

\* find_user: index of the record with this id, 0 for NULL
find_user(user_id) ==
    IF \E i \in 1..user_count : users[i].user_id = user_id
    THEN CHOOSE i \in 1..user_count :
            /\ users[i].user_id = user_id
            /\ \A j \in 1..(i - 1) : users[j].user_id # user_id
    ELSE 0

\* Variants of is_pass_valid with a plausible slip: only the weekly flag is
\* looked at; the expiry is not looked at.
is_pass_valid_weekly_only(user) ==
    user.has_weekly_pass /\ now < user.pass_expiry

is_pass_valid_no_expiry(user) ==
    user.has_weekly_pass \/ user.has_monthly_pass

is_pass_valid(user) ==
    (user.has_weekly_pass \/ user.has_monthly_pass) /\ now < user.pass_expiry

\* Variant of calculate_bulk_discount with a plausible slip: the tiers start
\* strictly above 10, 15 and 20 litres.
calculate_bulk_discount_strict(liters) ==
    IF liters > 2000 THEN 400
    ELSE IF liters > 1500 THEN 300
    ELSE IF liters > 1000 THEN 200
    ELSE 0

calculate_bulk_discount(liters) ==
    IF liters >= 2000 THEN 400
    ELSE IF liters >= 1500 THEN 300
    ELSE IF liters >= 1000 THEN 200
    ELSE 0

calculate_loyalty_discount(user) == Percent(user.total_spent, 5)

\* Variant of calculate_discount with a plausible slip: the loyalty
\* percentage is taken on the lifetime spending with this purchase included.
calculate_discount_after_cost(user, liters) ==
    LET spent   == user.total_spent + liters * WATER_PRICE_PER_LITER
        student == IF user.is_student
                   THEN Percent(liters * WATER_PRICE_PER_LITER, 10) ELSE 0
        bulk    == IF liters >= MIN_BULK_LITERS
                   THEN calculate_bulk_discount(liters) ELSE 0
        loyalty == IF spent >= LOYALTY_THRESHOLD
                   THEN Percent(spent, 5) ELSE 0
        redeem  == user.loyalty_points >= 100
    IN  [discount |-> student + bulk + loyalty + (IF redeem THEN 500 ELSE 0),
         user |-> IF redeem
                  THEN [user EXCEPT !.loyalty_points = @ - 100]
                  ELSE user]

\* Variant of calculate_discount with a plausible slip: the redemption is
\* made without the test that the user holds 100 points.
calculate_discount_redeem_unchecked(user, liters) ==
    LET student == IF user.is_student
                   THEN Percent(liters * WATER_PRICE_PER_LITER, 10) ELSE 0
        bulk    == IF liters >= MIN_BULK_LITERS
                   THEN calculate_bulk_discount(liters) ELSE 0
        loyalty == IF user.total_spent >= LOYALTY_THRESHOLD
                   THEN calculate_loyalty_discount(user) ELSE 0
    IN  [discount |-> student + bulk + loyalty + 500,
         user |-> [user EXCEPT !.loyalty_points = @ - 100]]

\* Variant of calculate_discount with a plausible slip: the loyalty
\* percentage is given without the threshold on the lifetime spending.
calculate_discount_no_threshold(user, liters) ==
    LET student == IF user.is_student
                   THEN Percent(liters * WATER_PRICE_PER_LITER, 10) ELSE 0
        bulk    == IF liters >= MIN_BULK_LITERS
                   THEN calculate_bulk_discount(liters) ELSE 0
        loyalty == calculate_loyalty_discount(user)
        redeem  == user.loyalty_points >= 100
    IN  [discount |-> student + bulk + loyalty + (IF redeem THEN 500 ELSE 0),
         user |-> IF redeem
                  THEN [user EXCEPT !.loyalty_points = @ - 100]
                  ELSE user]

\* Variant of calculate_discount with a plausible slip: every block of 100
\* points is redeemed (a loop instead of a single test).
calculate_discount_redeem_all(user, liters) ==
    LET student == IF user.is_student
                   THEN Percent(liters * WATER_PRICE_PER_LITER, 10) ELSE 0
        bulk    == IF liters >= MIN_BULK_LITERS
                   THEN calculate_bulk_discount(liters) ELSE 0
        loyalty == IF user.total_spent >= LOYALTY_THRESHOLD
                   THEN calculate_loyalty_discount(user) ELSE 0
        blocks  == user.loyalty_points \div 100
    IN  [discount |-> student + bulk + loyalty + 500 * blocks,
         user |-> [user EXCEPT !.loyalty_points = @ - 100 * blocks]]

\* calculate_discount returns the discount and, through its pointer
\* argument, the user with the redeemed points deducted.
calculate_discount(user, liters) ==
    LET student == IF user.is_student
                   THEN Percent(liters * WATER_PRICE_PER_LITER, 10) ELSE 0
        bulk    == IF liters >= MIN_BULK_LITERS
                   THEN calculate_bulk_discount(liters) ELSE 0
        loyalty == IF user.total_spent >= LOYALTY_THRESHOLD
                   THEN calculate_loyalty_discount(user) ELSE 0
        redeem  == user.loyalty_points >= 100
    IN  [discount |-> student + bulk + loyalty + (IF redeem THEN 500 ELSE 0),
         user |-> IF redeem
                  THEN [user EXCEPT !.loyalty_points = @ - 100]
                  ELSE user]

\* Variant of update_loyalty_points with a plausible slip: the amount is
\* rounded to the nearest rupee instead of cut.
update_loyalty_points_rounded(user, amount) ==
    [user EXCEPT !.loyalty_points = @ + ((amount + 50) \div 100)]

\* (int)amount of a non-negative amount: whole rupees
update_loyalty_points(user, amount) ==
    [user EXCEPT !.loyalty_points = @ + (amount \div 100)]

\* Variant of save_transaction with a plausible slip: a full ledger takes the
\* new record in its last slot instead of dropping it.
save_transaction_ring(txns, user_id, amount, liters, method, fee, discount) ==
    IF Len(txns) >= MAX_TRANSACTIONS
    THEN [txns EXCEPT ![Len(txns)] =
              [transaction_id |-> Len(txns),
               user_id |-> user_id, amount |-> amount,
               liters |-> liters, payment_method |-> method,
               fee_charged |-> fee, discount_applied |-> discount,
               timestamp |-> now]]
    ELSE Append(txns, [transaction_id |-> Len(txns) + 1,
                       user_id |-> user_id, amount |-> amount,
                       liters |-> liters, payment_method |-> method,
                       fee_charged |-> fee, discount_applied |-> discount,
                       timestamp |-> now])

save_transaction(txns, user_id, amount, liters, method, fee, discount) ==
    IF Len(txns) >= MAX_TRANSACTIONS THEN txns
    ELSE Append(txns, [transaction_id |-> Len(txns) + 1,
                       user_id |-> user_id, amount |-> amount,
                       liters |-> liters, payment_method |-> method,
                       fee_charged |-> fee, discount_applied |-> discount,
                       timestamp |-> now])

\* Variants of digital_fee with a plausible slip: a discount below the fee
\* absorbs nothing; the "discount covers fee" strategy and the clamp at zero
\* are missing.
digital_fee_no_absorb(liters, discount) ==
    IF liters >= MIN_BULK_LITERS THEN 0
    ELSE IF discount >= DIGITAL_FEE THEN 0
    ELSE DIGITAL_FEE

digital_fee_unclamped(liters, discount) ==
    IF liters >= MIN_BULK_LITERS THEN 0
    ELSE DIGITAL_FEE - discount

\* The fee strategies of a digital payment without a valid pass
digital_fee(liters, discount) ==
    IF liters >= MIN_BULK_LITERS THEN 0
    ELSE IF discount >= DIGITAL_FEE THEN 0
    ELSE LET fee == DIGITAL_FEE - discount IN IF fee < 0 THEN 0 ELSE fee

\* The pass line of view_user_profile
reported_pass(user) ==
    IF is_pass_valid(user)
    THEN (IF user.has_monthly_pass THEN "Monthly" ELSE "Weekly")
    ELSE "None"

\* Pass activation of purchase_pass: one flag is set, the other is left as
\* it was, and the expiry is restarted from the current time.
activate_pass(user, pass_type, pass_days) ==
    [user EXCEPT
        !.has_weekly_pass = IF pass_type = 1 THEN TRUE ELSE @,
        !.has_monthly_pass = IF pass_type = 1 THEN @ ELSE TRUE,
        !.pass_expiry = now + pass_days * 24 * 60 * 60]

\* Cash branch of purchase_water: discounts always computed, no fee
cash_payment(user, liters) ==
    LET base_cost == liters * WATER_PRICE_PER_LITER
        d == calculate_discount(user, liters)
    IN  [outcome |-> "ok", user |-> d.user, payment_method |-> "Cash",
         discount |-> d.discount, fee |-> 0,
         final_amount |-> base_cost - d.discount, pass_valid |-> FALSE]

\* Variant of digital_payment with a plausible slip: the wallet is debited
\* before the balance is checked.
digital_payment_deduct_first(user, liters) ==
    LET base_cost == liters * WATER_PRICE_PER_LITER
        valid == is_pass_valid(user)
        d == IF valid THEN [discount |-> 0, user |-> user]
             ELSE calculate_discount(user, liters)
        fee == IF valid THEN 0 ELSE digital_fee(liters, d.discount)
        final_amount == base_cost - d.discount + fee
        debited == [d.user EXCEPT !.wallet_balance = @ - final_amount]
    IN  [outcome |-> IF debited.wallet_balance < 0
                     THEN "InsufficientFunds" ELSE "ok",
         user |-> debited, payment_method |-> "Digital",
         discount |-> d.discount, fee |-> fee,
         final_amount |-> final_amount, pass_valid |-> valid]

\* Digital branch of purchase_water: fee optimisation, balance check,
\* deduction.  Under a valid pass calculate_discount is not called.
digital_payment(user, liters) ==
    LET base_cost == liters * WATER_PRICE_PER_LITER
        valid == is_pass_valid(user)
        d == IF valid THEN [discount |-> 0, user |-> user]
             ELSE calculate_discount(user, liters)
        fee == IF valid THEN 0 ELSE digital_fee(liters, d.discount)
        final_amount == base_cost - d.discount + fee
    IN  IF d.user.wallet_balance < final_amount
        THEN [outcome |-> "InsufficientFunds", user |-> d.user,
              payment_method |-> "Digital", discount |-> d.discount,
              fee |-> fee, final_amount |-> final_amount,
              pass_valid |-> valid]
        ELSE [outcome |-> "ok",
              user |-> [d.user EXCEPT !.wallet_balance = @ - final_amount],
              payment_method |-> "Digital", discount |-> d.discount,
              fee |-> fee, final_amount |-> final_amount,
              pass_valid |-> valid]

\* Variant of update_user_statistics with a plausible slip: the base cost is
\* assigned to total_spent instead of added.
update_user_statistics_assign(user, base_cost) ==
    update_loyalty_points(
        [user EXCEPT !.total_spent = base_cost,
                     !.transaction_count = @ + 1], base_cost)

\* total_spent, transaction_count and loyalty points after a payment
update_user_statistics(user, base_cost) ==
    update_loyalty_points(
        [user EXCEPT !.total_spent = @ + base_cost,
                     !.transaction_count = @ + 1], base_cost)

\* Variant of update_stats with a plausible slip: the revenue grows by the
\* final amount instead of the base cost.
update_stats_revenue_final(st, payment_choice, liters, base_cost, fee, discount) ==
    [st EXCEPT
        !.cash_transactions = IF payment_choice = 1 THEN @ + 1 ELSE @,
        !.digital_transactions = IF payment_choice = 2 THEN @ + 1 ELSE @,
        !.bulk_purchases = IF liters >= MIN_BULK_LITERS THEN @ + 1 ELSE @,
        !.total_revenue = @ + base_cost - discount + fee,
        !.total_fees_collected = @ + fee,
        !.total_discounts_given = @ + discount]

\* Variant of update_stats with a plausible slip: a purchase counts as bulk
\* only above 10 litres.
update_stats_bulk_strict(st, payment_choice, liters, base_cost, fee, discount) ==
    [st EXCEPT
        !.cash_transactions = IF payment_choice = 1 THEN @ + 1 ELSE @,
        !.digital_transactions = IF payment_choice = 2 THEN @ + 1 ELSE @,
        !.bulk_purchases = IF liters > MIN_BULK_LITERS THEN @ + 1 ELSE @,
        !.total_revenue = @ + base_cost,
        !.total_fees_collected = @ + fee,
        !.total_discounts_given = @ + discount]

\* All analytics updates of one completed purchase
update_stats(st, payment_choice, liters, base_cost, fee, discount) ==
    [st EXCEPT
        !.cash_transactions = IF payment_choice = 1 THEN @ + 1 ELSE @,
        !.digital_transactions = IF payment_choice = 2 THEN @ + 1 ELSE @,
        !.bulk_purchases = IF liters >= MIN_BULK_LITERS THEN @ + 1 ELSE @,
        !.total_revenue = @ + base_cost,
        !.total_fees_collected = @ + fee,
        !.total_discounts_given = @ + discount]

Failed(op, outcome, user_id) ==
    [NoReceipt EXCEPT !.op = op, !.outcome = outcome, !.user_id = user_id]

\* Variant of register_user with a plausible slip: the capacity test lets
\* one registration too many through.
register_user_over_capacity(is_student) ==
    IF user_count > MAX_USERS
    THEN /\ receipt' = Failed("register_user", "LimitReached", 0)
         /\ UNCHANGED <<users, transactions, stats, now>>
    ELSE /\ users' = Append(users,
                [user_id |-> user_count + 1, is_student |-> is_student,
                 wallet_balance |-> 0, total_spent |-> 0,
                 transaction_count |-> 0, loyalty_points |-> 0,
                 has_weekly_pass |-> FALSE, has_monthly_pass |-> FALSE,
                 pass_expiry |-> 0])
         /\ receipt' = [NoReceipt EXCEPT !.op = "register_user",
                            !.outcome = "ok", !.user_id = user_count + 1]
         /\ UNCHANGED <<transactions, stats, now>>

register_user(is_student) ==
    IF user_count >= MAX_USERS
    THEN /\ receipt' = Failed("register_user", "LimitReached", 0)
         /\ UNCHANGED <<users, transactions, stats, now>>
    ELSE /\ users' = Append(users,
                [user_id |-> user_count + 1, is_student |-> is_student,
                 wallet_balance |-> 0, total_spent |-> 0,
                 transaction_count |-> 0, loyalty_points |-> 0,
                 has_weekly_pass |-> FALSE, has_monthly_pass |-> FALSE,
                 pass_expiry |-> 0])
         /\ receipt' = [NoReceipt EXCEPT !.op = "register_user",
                            !.outcome = "ok", !.user_id = user_count + 1]
         /\ UNCHANGED <<transactions, stats, now>>

\* Variant of top_up_wallet with a plausible slip: the bonus is 2% of the
\* new balance instead of 2% of the amount.
top_up_wallet_bonus_on_balance(user_id, amount) ==
    LET i == find_user(user_id) IN
    IF i = 0
    THEN /\ receipt' = Failed("top_up_wallet", "UserNotFound", user_id)
         /\ UNCHANGED <<users, transactions, stats, now>>
    ELSE IF amount <= 0
    THEN /\ receipt' = Failed("top_up_wallet", "InvalidAmount", user_id)
         /\ UNCHANGED <<users, transactions, stats, now>>
    ELSE LET bonus == IF amount >= 10000
                      THEN Percent(users[i].wallet_balance + amount, 2)
                      ELSE 0 IN
         /\ users' = [users EXCEPT ![i].wallet_balance = @ + amount + bonus]
         /\ receipt' = [NoReceipt EXCEPT !.op = "top_up_wallet",
                            !.outcome = "ok", !.user_id = user_id,
                            !.final_amount = amount + bonus]
         /\ UNCHANGED <<transactions, stats, now>>

top_up_wallet(user_id, amount) ==
    LET i == find_user(user_id) IN
    IF i = 0
    THEN /\ receipt' = Failed("top_up_wallet", "UserNotFound", user_id)
         /\ UNCHANGED <<users, transactions, stats, now>>
    ELSE IF amount <= 0
    THEN /\ receipt' = Failed("top_up_wallet", "InvalidAmount", user_id)
         /\ UNCHANGED <<users, transactions, stats, now>>
    ELSE LET bonus == IF amount >= 10000 THEN Percent(amount, 2) ELSE 0 IN
         /\ users' = [users EXCEPT ![i].wallet_balance = @ + amount + bonus]
         /\ receipt' = [NoReceipt EXCEPT !.op = "top_up_wallet",
                            !.outcome = "ok", !.user_id = user_id,
                            !.final_amount = amount + bonus]
         /\ UNCHANGED <<transactions, stats, now>>

\* Variant of purchase_water with a plausible slip: the quantity check
\* rejects negative quantities only.
purchase_water_zero_accepted(user_id, liters, payment_choice) ==
    LET i == find_user(user_id) IN
    /\ IF i = 0
       THEN /\ receipt' = Failed("purchase_water", "UserNotFound", user_id)
            /\ UNCHANGED <<users, transactions, stats, now>>
       ELSE IF liters < 0
       THEN /\ receipt' = [Failed("purchase_water", "InvalidQuantity",
                                  user_id) EXCEPT !.liters = liters]
            /\ UNCHANGED <<users, transactions, stats, now>>
       ELSE IF payment_choice \notin {1, 2}
       THEN /\ receipt' = [Failed("purchase_water", "InvalidPaymentMethod",
                                  user_id) EXCEPT !.liters = liters]
            /\ UNCHANGED <<users, transactions, stats, now>>
       ELSE
       LET base_cost == liters * WATER_PRICE_PER_LITER
           p == IF payment_choice = 1 THEN cash_payment(users[i], liters)
                ELSE digital_payment(users[i], liters)
           r == [op |-> "purchase_water", outcome |-> p.outcome,
                 user_id |-> user_id, liters |-> liters,
                 payment_method |-> p.payment_method,
                 base_cost |-> base_cost, discount |-> p.discount,
                 fee |-> p.fee, final_amount |-> p.final_amount,
                 pass_valid |-> p.pass_valid, pass_type |-> 0]
       IN  IF p.outcome # "ok"
           THEN /\ users' = [users EXCEPT ![i] = p.user]
                /\ receipt' = r
                /\ UNCHANGED <<transactions, stats, now>>
           ELSE /\ users' = [users EXCEPT
                        ![i] = update_user_statistics(p.user, base_cost)]
                /\ transactions' = save_transaction(transactions, user_id,
                        p.final_amount, liters, p.payment_method, p.fee,
                        p.discount)
                /\ stats' = update_stats(stats, payment_choice, liters,
                        base_cost, p.fee, p.discount)
                /\ receipt' = r
                /\ UNCHANGED now

purchase_water(user_id, liters, payment_choice) ==
    LET i == find_user(user_id) IN
    /\ IF i = 0
       THEN /\ receipt' = Failed("purchase_water", "UserNotFound", user_id)
            /\ UNCHANGED <<users, transactions, stats, now>>
       ELSE IF liters <= 0
       THEN /\ receipt' = [Failed("purchase_water", "InvalidQuantity",
                                  user_id) EXCEPT !.liters = liters]
            /\ UNCHANGED <<users, transactions, stats, now>>
       ELSE IF payment_choice \notin {1, 2}
       THEN /\ receipt' = [Failed("purchase_water", "InvalidPaymentMethod",
                                  user_id) EXCEPT !.liters = liters]
            /\ UNCHANGED <<users, transactions, stats, now>>
       ELSE
       LET base_cost == liters * WATER_PRICE_PER_LITER
           p == IF payment_choice = 1 THEN cash_payment(users[i], liters)
                ELSE digital_payment(users[i], liters)
           r == [op |-> "purchase_water", outcome |-> p.outcome,
                 user_id |-> user_id, liters |-> liters,
                 payment_method |-> p.payment_method,
                 base_cost |-> base_cost, discount |-> p.discount,
                 fee |-> p.fee, final_amount |-> p.final_amount,
                 pass_valid |-> p.pass_valid, pass_type |-> 0]
       IN  IF p.outcome # "ok"
           THEN /\ users' = [users EXCEPT ![i] = p.user]
                /\ receipt' = r
                /\ UNCHANGED <<transactions, stats, now>>
           ELSE /\ users' = [users EXCEPT
                        ![i] = update_user_statistics(p.user, base_cost)]
                /\ transactions' = save_transaction(transactions, user_id,
                        p.final_amount, liters, p.payment_method, p.fee,
                        p.discount)
                /\ stats' = update_stats(stats, payment_choice, liters,
                        base_cost, p.fee, p.discount)
                /\ receipt' = r
                /\ UNCHANGED now

\* ---------------- a Digital purchase in two steps ------------------------
\* purchase_water for payment choice 2, cut between the balance test and the
\* deduction, for callers that are not kept apart.  Each step is taken as a
\* whole; the two steps of one call may have steps of other calls between
\* them.

\* Variant of check_balance with a plausible slip: the balance test is
\* missing.
check_balance_skipped(caller, user_id, liters) ==
    LET i == find_user(user_id) IN
    /\ in_flight[caller] = NoCall
    /\ IF i = 0
       THEN /\ receipt' = Failed("purchase_water", "UserNotFound", user_id)
            /\ UNCHANGED <<users, transactions, stats, now, in_flight>>
       ELSE IF liters <= 0
       THEN /\ receipt' = [Failed("purchase_water", "InvalidQuantity",
                                  user_id) EXCEPT !.liters = liters]
            /\ UNCHANGED <<users, transactions, stats, now, in_flight>>
       ELSE
       LET p == digital_payment(users[i], liters)
           call == [user_id |-> user_id, liters |-> liters,
                    discount |-> p.discount, fee |-> p.fee,
                    final_amount |-> p.final_amount,
                    pass_valid |-> p.pass_valid,
                    seen_balance |-> users[i].wallet_balance]
           redeemed == [p.user EXCEPT
                           !.wallet_balance = users[i].wallet_balance]
       IN  /\ users' = [users EXCEPT ![i] = redeemed]
           /\ in_flight' = [in_flight EXCEPT ![caller] = call]
           /\ UNCHANGED <<transactions, stats, now, receipt>>

\* purchase_water from its start to the balance test: the discount (with
\* its redemption of points), the fee and the final amount are computed and
\* the wallet is compared with the final amount; the wallet is not touched.
check_balance(caller, user_id, liters) ==
    LET i == find_user(user_id) IN
    /\ in_flight[caller] = NoCall
    /\ IF i = 0
       THEN /\ receipt' = Failed("purchase_water", "UserNotFound", user_id)
            /\ UNCHANGED <<users, transactions, stats, now, in_flight>>
       ELSE IF liters <= 0
       THEN /\ receipt' = [Failed("purchase_water", "InvalidQuantity",
                                  user_id) EXCEPT !.liters = liters]
            /\ UNCHANGED <<users, transactions, stats, now, in_flight>>
       ELSE
       LET p == digital_payment(users[i], liters)
           call == [user_id |-> user_id, liters |-> liters,
                    discount |-> p.discount, fee |-> p.fee,
                    final_amount |-> p.final_amount,
                    pass_valid |-> p.pass_valid,
                    seen_balance |-> users[i].wallet_balance]
           redeemed == [p.user EXCEPT
                           !.wallet_balance = users[i].wallet_balance]
       IN  IF users[i].wallet_balance < p.final_amount
           THEN /\ users' = [users EXCEPT ![i] = redeemed]
                /\ receipt' = [op |-> "purchase_water",
                        outcome |-> "InsufficientFunds",
                        user_id |-> user_id, liters |-> liters,
                        payment_method |-> "Digital",
                        base_cost |-> liters * WATER_PRICE_PER_LITER,
                        discount |-> p.discount, fee |-> p.fee,
                        final_amount |-> p.final_amount,
                        pass_valid |-> p.pass_valid, pass_type |-> 0]
                /\ UNCHANGED <<transactions, stats, now, in_flight>>
           ELSE /\ users' = [users EXCEPT ![i] = redeemed]
                /\ in_flight' = [in_flight EXCEPT ![caller] = call]
                /\ UNCHANGED <<transactions, stats, now, receipt>>

\* purchase_water from the deduction to its end, with the amounts the call
\* computed before the balance test
deduct_and_record(caller) ==
    LET call == in_flight[caller]
        i == find_user(call.user_id)
        base_cost == call.liters * WATER_PRICE_PER_LITER
    IN  /\ call # NoCall
        /\ users' = [users EXCEPT ![i] = update_user_statistics(
                        [@ EXCEPT !.wallet_balance = @ - call.final_amount],
                        base_cost)]
        /\ transactions' = save_transaction(transactions, call.user_id,
                call.final_amount, call.liters, "Digital", call.fee,
                call.discount)
        /\ stats' = update_stats(stats, 2, call.liters, base_cost, call.fee,
                call.discount)
        /\ receipt' = [op |-> "purchase_water", outcome |-> "ok",
                user_id |-> call.user_id, liters |-> call.liters,
                payment_method |-> "Digital", base_cost |-> base_cost,
                discount |-> call.discount, fee |-> call.fee,
                final_amount |-> call.final_amount,
                pass_valid |-> call.pass_valid, pass_type |-> 0]
        /\ in_flight' = [in_flight EXCEPT ![caller] = NoCall]
        /\ UNCHANGED now

\* Variant of purchase_pass with a plausible slip: the cost is taken from
\* the wallet before the balance is checked.
purchase_pass_deduct_first(user_id, pass_type) ==
    LET i == find_user(user_id) IN
    /\ stats.pass_holders < MaxPasses
    /\ IF i = 0
       THEN /\ receipt' = Failed("purchase_pass", "UserNotFound", user_id)
            /\ UNCHANGED <<users, transactions, stats, now>>
       ELSE IF pass_type \notin {1, 2}
       THEN /\ receipt' = Failed("purchase_pass", "InvalidPassType", user_id)
            /\ UNCHANGED <<users, transactions, stats, now>>
       ELSE
       LET pass_cost == IF pass_type = 1 THEN WEEKLY_PASS_COST
                        ELSE MONTHLY_PASS_COST
           pass_days == IF pass_type = 1 THEN 7 ELSE 30
       IN  IF users[i].wallet_balance < pass_cost
           THEN /\ users' = [users EXCEPT
                        ![i].wallet_balance = @ - pass_cost]
                /\ receipt' = [Failed("purchase_pass", "InsufficientFunds",
                                 user_id) EXCEPT !.final_amount = pass_cost]
                /\ UNCHANGED <<transactions, stats, now>>
           ELSE /\ users' = [users EXCEPT ![i] = activate_pass(
                        [@ EXCEPT !.wallet_balance = @ - pass_cost],
                        pass_type, pass_days)]
                /\ stats' = [stats EXCEPT !.pass_holders = @ + 1]
                /\ receipt' = [NoReceipt EXCEPT !.op = "purchase_pass",
                        !.outcome = "ok", !.user_id = user_id,
                        !.pass_type = pass_type, !.final_amount = pass_cost]
                /\ UNCHANGED <<transactions, now>>

purchase_pass(user_id, pass_type) ==
    LET i == find_user(user_id) IN
    /\ stats.pass_holders < MaxPasses
    /\ IF i = 0
       THEN /\ receipt' = Failed("purchase_pass", "UserNotFound", user_id)
            /\ UNCHANGED <<users, transactions, stats, now>>
       ELSE IF pass_type \notin {1, 2}
       THEN /\ receipt' = Failed("purchase_pass", "InvalidPassType", user_id)
            /\ UNCHANGED <<users, transactions, stats, now>>
       ELSE
       LET pass_cost == IF pass_type = 1 THEN WEEKLY_PASS_COST
                        ELSE MONTHLY_PASS_COST
           pass_days == IF pass_type = 1 THEN 7 ELSE 30
       IN  IF users[i].wallet_balance < pass_cost
           THEN /\ receipt' = [Failed("purchase_pass", "InsufficientFunds",
                                 user_id) EXCEPT !.final_amount = pass_cost]
                /\ UNCHANGED <<users, transactions, stats, now>>
           ELSE /\ users' = [users EXCEPT ![i] = activate_pass(
                        [@ EXCEPT !.wallet_balance = @ - pass_cost],
                        pass_type, pass_days)]
                /\ stats' = [stats EXCEPT !.pass_holders = @ + 1]
                /\ receipt' = [NoReceipt EXCEPT !.op = "purchase_pass",
                        !.outcome = "ok", !.user_id = user_id,
                        !.pass_type = pass_type, !.final_amount = pass_cost]
                /\ UNCHANGED <<transactions, now>>

\* time(NULL) advances between two menu choices
Tick(days) ==
    /\ now + days * SECONDS_PER_DAY <= MaxDays * SECONDS_PER_DAY
    /\ now' = now + days * SECONDS_PER_DAY
    /\ UNCHANGED <<users, transactions, stats, receipt>>

\* Spec, SpecLedger and SpecBoundary follow one customer through the menu:
\* registration is offered while the registry is empty.  SpecRegistry
\* (below) fills the registry and goes beyond its capacity.
RegisterUser ==
    /\ user_count = 0
    /\ \E s \in BOOLEAN : register_user(s)
    /\ UNCHANGED in_flight
\* A positive top-up is offered while the wallets, the amount and 2% of
\* it together stay within the cap
TopUpWallet ==
    \E u \in UserIdChoices, a \in AmountChoices :
        /\ a > 0 => TotalWallet(users) + a + Percent(a, 2) <= MaxWallet
        /\ top_up_wallet(u, a)
        /\ UNCHANGED in_flight
PurchaseWater ==
    /\ stats.cash_transactions + stats.digital_transactions < MaxPurchases
    /\ \E u \in UserIdChoices, l \in LitersChoices, c \in PaymentChoices :
          purchase_water(u, l, c)
    /\ UNCHANGED in_flight
PurchasePass ==
    /\ \E u \in UserIdChoices, t \in PassTypeChoices : purchase_pass(u, t)
    /\ UNCHANGED in_flight
ClockTick ==
    /\ \E d \in TickDays : Tick(d)
    /\ UNCHANGED in_flight

Next ==
    \/ RegisterUser
    \/ TopUpWallet
    \/ PurchaseWater
    \/ PurchasePass
    \/ ClockTick

Spec == Init /\ [][Next]_vars

\* The ledger beyond its capacity: registration, purchases and time, so that
\* more purchases than MAX_TRANSACTIONS fit in a run.
LedgerLiters == {250, 5000}

LedgerPurchase ==
    /\ stats.cash_transactions + stats.digital_transactions
          < MaxLedgerPurchases
    /\ \E u \in UserIdChoices, l \in LedgerLiters, c \in {1, 2} :
          purchase_water(u, l, c)
    /\ UNCHANGED in_flight

NextLedger ==
    \/ RegisterUser
    \/ LedgerPurchase
    \/ ClockTick

SpecLedger == Init /\ [][NextLedger]_vars

\* The boundary inputs: quantities on and just below the bulk tiers, a
\* quantity worth more than 200 points, a non-positive quantity, and top-ups
\* on and just below the bonus threshold.  9.99 and 14.99 litres cost 19.98
\* and 29.98; a percentage of such an amount is cut to whole paise by Percent.
BoundaryLiters == {-250, 0, 999, 1000, 1499, 1500, 2000, 12500}
BoundaryAmounts == {-100, 9999, 10000}

BoundaryTopUp ==
    \E u \in UserIdChoices, a \in BoundaryAmounts :
        /\ a > 0 => TotalWallet(users) + a + Percent(a, 2) <= MaxBoundaryWallet
        /\ top_up_wallet(u, a)
        /\ UNCHANGED in_flight

BoundaryPurchase ==
    /\ stats.cash_transactions + stats.digital_transactions < MaxPurchases
    /\ \E u \in UserIdChoices, l \in BoundaryLiters, c \in PaymentChoices :
          purchase_water(u, l, c)
    /\ UNCHANGED in_flight

NextBoundary ==
    \/ RegisterUser
    \/ BoundaryTopUp
    \/ BoundaryPurchase

SpecBoundary == Init /\ [][NextBoundary]_vars

\* The registry up to and beyond its capacity: every registration, and
\* top-ups, purchases and pass purchases of every customer.
RegistryLiters == {250, 5000}

RegisterAny ==
    /\ \E s \in BOOLEAN : register_user(s)
    /\ UNCHANGED in_flight

RegistryTopUp ==
    \E u \in AllUserIds :
        /\ TotalWallet(users) + 10000 + Percent(10000, 2) <= MaxWallet
        /\ top_up_wallet(u, 10000)
        /\ UNCHANGED in_flight

RegistryPurchase ==
    /\ stats.cash_transactions + stats.digital_transactions < MaxPurchases
    /\ \E u \in AllUserIds, l \in RegistryLiters, c \in PaymentChoices :
          purchase_water(u, l, c)
    /\ UNCHANGED in_flight

RegistryPass ==
    /\ \E u \in AllUserIds : purchase_pass(u, 1)
    /\ UNCHANGED in_flight

NextRegistry ==
    \/ RegisterAny
    \/ RegistryTopUp
    \/ RegistryPurchase
    \/ RegistryPass

SpecRegistry == Init /\ [][NextRegistry]_vars

\* Callers that are not kept apart: registration, a top-up, and Digital
\* purchases in two steps.
ConcurrentLiters == {250, 5000}

ConcurrentTopUp ==
    \E u \in UserIdChoices :
        /\ TotalWallet(users) + 10000 + Percent(10000, 2) <= MaxWallet
        /\ top_up_wallet(u, 10000)
        /\ UNCHANGED in_flight

CheckBalance ==
    /\ stats.digital_transactions
          + Cardinality({k \in Callers : in_flight[k] # NoCall})
          < MaxPurchases
    /\ \E k \in Callers, u \in UserIdChoices, l \in ConcurrentLiters :
          check_balance(k, u, l)

DeductAndRecord == \E k \in Callers : deduct_and_record(k)

NextConcurrent ==
    \/ RegisterUser
    \/ ConcurrentTopUp
    \/ CheckBalance
    \/ DeductAndRecord

SpecConcurrent == Init /\ [][NextConcurrent]_vars

\* ======================= properties ======================================

\* A step that is a call of purchase_water which got as far as the payment
\* (a known user, liters > 0, Cash or Digital).  The first three conjuncts
\* follow from the others; they only spare evaluating the call on the steps
\* of other operations.
PurchaseStep(u, l, c) ==
    /\ l > 0 /\ find_user(u) # 0
    /\ receipt'.op = "purchase_water" /\ receipt'.liters = l
    /\ purchase_water(u, l, c)

\* C1: a Digital purchase that fails with InsufficientFunds changes no field
\* of any user (loyalty points included), no ledger record and no analytics
\* counter.
C1_NoMutationOnInsufficientFunds ==
    [][\A u \in UserIdChoices, l \in LitersChoices :
          (PurchaseStep(u, l, 2) /\ receipt'.outcome = "InsufficientFunds")
             => (users' = users /\ transactions' = transactions
                 /\ stats' = stats)]_vars

\* The four discount components of the specification, on a given user state
FourComponentSum(user, liters) ==
    (IF user.is_student THEN ((liters * 2) * 10) \div 100 ELSE 0)
    + (IF liters >= 2000 THEN 400
       ELSE IF liters >= 1500 THEN 300
       ELSE IF liters >= 1000 THEN 200 ELSE 0)
    + (IF user.total_spent >= 5000 THEN (user.total_spent * 5) \div 100
       ELSE 0)
    + (IF user.loyalty_points >= 100 THEN 500 ELSE 0)

\* C2: the discount of every successful purchase, Cash or Digital, with or
\* without a valid pass, is the sum of the four components computed on the
\* user's state before the purchase, and that sum is what the ledger records.
C2_DiscountIsSumOfComponents ==
    [][\A u \in UserIdChoices, l \in LitersChoices, c \in {1, 2} :
          (PurchaseStep(u, l, c) /\ receipt'.outcome = "ok")
             => /\ receipt'.discount = FourComponentSum(users[find_user(u)], l)
                /\ (Len(transactions') > Len(transactions)
                      => transactions'[Len(transactions')].discount_applied
                            = FourComponentSum(users[find_user(u)], l))]_vars

\* C3: the three running totals of the analytics equal the fold over the
\* records of the ledger, after any sequence of purchases.
C3_AnalyticsEqualLedgerFold ==
    /\ stats.total_revenue =
          SumSeq([k \in 1..Len(transactions) |-> transactions[k].liters * 2])
    /\ stats.total_fees_collected =
          SumSeq([k \in 1..Len(transactions) |-> transactions[k].fee_charged])
    /\ stats.total_discounts_given =
          SumSeq([k \in 1..Len(transactions) |->
                     transactions[k].discount_applied])

\* C4: after a successful purchase_pass the expiry is the current time plus
\* 7 days (Weekly) or 30 days (Monthly) and the kind the profile shows for
\* the user is the kind just bought, whatever pass was held before.
C4_PassOverwritesPreviousPass ==
    [][\A u \in UserIdChoices, t \in {1, 2} :
          (purchase_pass(u, t) /\ receipt'.outcome = "ok")
             => LET user == users'[find_user(u)] IN
                /\ user.pass_expiry
                      = now + (IF t = 1 THEN 7 ELSE 30) * SECONDS_PER_DAY
                /\ reported_pass(users[find_user(u)])'
                      = (IF t = 1 THEN "Weekly" ELSE "Monthly")]_vars

\* A pass was bought and the clock has not reached its expiry
HoldsUnexpiredPass(user) ==
    (user.has_weekly_pass \/ user.has_monthly_pass) /\ now < user.pass_expiry

\* C5: a Digital purchase made while the user's pass is unexpired is charged
\* no fee, for every quantity and whatever discounts the user is entitled to.
C5_ValidPassWaivesFee ==
    [][\A u \in UserIdChoices, l \in LitersChoices :
          (PurchaseStep(u, l, 2) /\ HoldsUnexpiredPass(users[find_user(u)]))
             => (receipt'.fee = 0
                 /\ stats'.total_fees_collected = stats.total_fees_collected)
      ]_vars

C5_Witness ==
    /\ receipt.op = "purchase_water" /\ receipt.outcome = "ok"
    /\ receipt.payment_method = "Digital" /\ receipt.pass_valid
    /\ receipt.liters < 1000 /\ receipt.discount = 0 /\ receipt.fee = 0
    /\ users[1].has_monthly_pass

\* C6: without a valid pass the Digital fee follows the first matching rule:
\* 10 litres or more: 0; discount of 1.00 or more: 0; otherwise 1.00 minus
\* the discount.
C6_FeeRulesWithoutPass ==
    (receipt.op = "purchase_water" /\ receipt.payment_method = "Digital"
     /\ ~receipt.pass_valid)
       => /\ receipt.liters >= 1000 => receipt.fee = 0
          /\ (receipt.liters < 1000 /\ receipt.discount >= 100)
                => receipt.fee = 0
          /\ (receipt.liters < 1000 /\ receipt.discount < 100)
                => receipt.fee = 100 - receipt.discount
          /\ receipt.final_amount
                = receipt.liters * 2 - receipt.discount + receipt.fee

C6_Witness ==
    /\ receipt.op = "purchase_water" /\ receipt.outcome = "ok"
    /\ receipt.payment_method = "Digital" /\ ~receipt.pass_valid
    /\ receipt.liters < 1000 /\ receipt.discount = 50 /\ receipt.fee = 50

\* C7: every recorded transaction and every completed purchase has a fee
\* between 0 and 1.00, a Cash one has fee 0, and the fees collected never
\* decrease.
C7_FeeBounds ==
    /\ [](/\ \A k \in 1..Len(transactions) :
               /\ transactions[k].fee_charged >= 0
               /\ transactions[k].fee_charged <= 100
               /\ transactions[k].payment_method = "Cash"
                     => transactions[k].fee_charged = 0
          /\ (receipt.op = "purchase_water" /\ receipt.outcome = "ok")
                => /\ receipt.fee >= 0 /\ receipt.fee <= 100
                   /\ receipt.payment_method = "Cash" => receipt.fee = 0)
    /\ [][stats'.total_fees_collected >= stats.total_fees_collected]_vars

C7_Witness ==
    /\ Len(transactions) = 2
    /\ transactions[1].payment_method = "Digital"
    /\ transactions[1].fee_charged = 100
    /\ transactions[2].payment_method = "Cash"
    /\ stats.total_fees_collected = 100

\* C8: validity is recomputed from the clock at each use.  The purchase sees
\* the pass as valid exactly when a pass was bought and the clock is before
\* its expiry; once the clock has reached the expiry, a Digital purchase of
\* less than 10 litres with no discount pays the full fee of 1.00 although
\* the pass flags are still set.
C8_ExpiredPassWaivesNothing ==
    [][\A u \in UserIdChoices, l \in LitersChoices :
          PurchaseStep(u, l, 2)
             => LET user == users[find_user(u)] IN
                /\ receipt'.pass_valid
                      = ((user.has_weekly_pass \/ user.has_monthly_pass)
                         /\ now < user.pass_expiry)
                /\ ((user.has_weekly_pass \/ user.has_monthly_pass)
                    /\ now >= user.pass_expiry /\ l < 1000
                    /\ receipt'.discount = 0)
                      => receipt'.fee = 100]_vars

C8_Witness ==
    /\ receipt.op = "purchase_water" /\ receipt.outcome = "ok"
    /\ receipt.payment_method = "Digital" /\ ~receipt.pass_valid
    /\ receipt.liters < 1000 /\ receipt.discount = 0 /\ receipt.fee = 100
    /\ users[1].has_weekly_pass /\ now >= users[1].pass_expiry

C10_InsufficientFundsKeepsWallet ==
    [][\A u \in UserIdChoices, l \in LitersChoices :
          (PurchaseStep(u, l, 2) /\ receipt'.outcome = "InsufficientFunds")
             => LET i == find_user(u) IN
                /\ users'[i].wallet_balance = users[i].wallet_balance
                /\ users[i].wallet_balance < receipt'.final_amount
                /\ transactions' = transactions]_vars

C10_Witness ==
    /\ receipt.op = "purchase_water"
    /\ receipt.outcome = "InsufficientFunds"
    /\ users[1].wallet_balance > 0
    /\ users[1].wallet_balance < receipt.final_amount
    /\ transactions = <<>>

\* Every quantity any of the specifications offers
AllLiters == LitersChoices \cup LedgerLiters \cup BoundaryLiters

\* calculate_discount is run by a Cash purchase and by a Digital purchase
\* made without an unexpired pass
DiscountEngineRuns(user, c) == c = 1 \/ ~HoldsUnexpiredPass(user)

\* C11: when the discount engine runs for a user with 100 points or more
\* (200 or more included) the discount contains exactly one flat 5.00 and
\* exactly 100 points are deducted before the award; with fewer than 100
\* points nothing is deducted and no 5.00 is added.
C11_RedemptionAtMostOnce ==
    [][\A u \in UserIdChoices, l \in AllLiters, c \in {1, 2} :
          (PurchaseStep(u, l, c) /\ DiscountEngineRuns(users[find_user(u)], c))
             => LET user == users[find_user(u)]
                    others == FourComponentSum(
                                 [user EXCEPT !.loyalty_points = 0], l)
                    award == IF receipt'.outcome = "ok"
                             THEN (l * 2) \div 100 ELSE 0
                    before_award == users'[find_user(u)].loyalty_points - award
                IN  IF user.loyalty_points >= 100
                    THEN /\ receipt'.discount = others + 500
                         /\ before_award = user.loyalty_points - 100
                    ELSE /\ receipt'.discount = others
                         /\ before_award = user.loyalty_points]_vars

C11_Witness ==
    /\ receipt.op = "purchase_water" /\ receipt.outcome = "ok"
    /\ receipt.liters = 999 /\ receipt.discount = 1250 + 500
    /\ users[1].total_spent = 25000 + 1998
    /\ users[1].loyalty_points = 250 - 100 + 19

\* C12: every successful purchase, Cash or Digital, adds the whole rupees of
\* the base cost (19.98 gives 19), not of the final amount, after the
\* redemption of the same call: points after = points before - 100 if
\* redeemed + floor(base cost).
C12_PointsAwardedOnBaseCost ==
    [][\A u \in UserIdChoices, l \in AllLiters, c \in {1, 2} :
          (PurchaseStep(u, l, c) /\ receipt'.outcome = "ok")
             => LET user == users[find_user(u)]
                    redeemed == /\ user.loyalty_points >= 100
                                /\ DiscountEngineRuns(user, c)
                IN  users'[find_user(u)].loyalty_points
                       = user.loyalty_points
                         - (IF redeemed THEN 100 ELSE 0)
                         + ((l * 2) \div 100)]_vars

C12_Witness ==
    /\ receipt.op = "purchase_water" /\ receipt.outcome = "ok"
    /\ receipt.payment_method = "Digital" /\ receipt.liters = 999
    /\ receipt.base_cost = 1998 /\ receipt.final_amount = 2098
    /\ users[1].loyalty_points = 19

\* C13: purchase_pass fails with InsufficientFunds exactly when the wallet
\* holds less than the cost of the kind (Weekly 15.00, Monthly 50.00) and
\* with InvalidPassType for any other kind; a failure changes neither the
\* wallet, the pass flags, the expiry nor the pass-holder counter; a success
\* takes exactly the cost from the wallet.
C13_PassPurchaseFailures ==
    [][\A u \in UserIdChoices, t \in PassTypeChoices :
          (find_user(u) # 0 /\ receipt'.op = "purchase_pass"
           /\ purchase_pass(u, t))
             => LET i == find_user(u)
                    cost == IF t = 1 THEN 1500 ELSE 5000
                IN  IF t \notin {1, 2}
                    THEN /\ receipt'.outcome = "InvalidPassType"
                         /\ users' = users /\ stats' = stats
                    ELSE /\ (receipt'.outcome = "InsufficientFunds")
                               = (users[i].wallet_balance < cost)
                         /\ receipt'.outcome \in {"InsufficientFunds", "ok"}
                         /\ receipt'.outcome = "InsufficientFunds"
                               => (users' = users /\ stats' = stats)
                         /\ receipt'.outcome = "ok"
                               => users'[i].wallet_balance
                                     = users[i].wallet_balance - cost]_vars

C13_Witness ==
    /\ receipt.op = "purchase_pass" /\ receipt.outcome = "InsufficientFunds"
    /\ users[1].wallet_balance > 0
    /\ users[1].wallet_balance < receipt.final_amount
    /\ users[1].has_monthly_pass /\ stats.pass_holders = 1

\* C14: a purchase of zero or fewer litres is rejected as InvalidQuantity and
\* changes no user record, no ledger record and no analytics counter.
C14_InvalidQuantityChangesNothing ==
    [][\A u \in UserIdChoices, l \in AllLiters, c \in PaymentChoices :
          (l <= 0 /\ find_user(u) # 0 /\ receipt'.op = "purchase_water"
           /\ purchase_water(u, l, c))
             => /\ receipt'.outcome = "InvalidQuantity"
                /\ users' = users
                /\ transactions' = transactions
                /\ stats' = stats]_vars

C14_Witness ==
    /\ receipt.op = "purchase_water" /\ receipt.outcome = "InvalidQuantity"
    /\ receipt.liters < 0
    /\ users[1].loyalty_points >= 100 /\ users[1].wallet_balance > 0
    /\ Len(transactions) = 1

\* C15: a top-up of zero or less is rejected as InvalidAmount and changes
\* nothing; a top-up below 100.00 adds exactly the amount (99.99 adds 99.99),
\* one of 100.00 or more adds the amount plus 2% of the amount (100.00 adds
\* 102.00), whatever the balance was; nothing else changes.
C15_TopUpBonus ==
    [][\A u \in UserIdChoices, a \in AmountChoices \cup BoundaryAmounts :
          (find_user(u) # 0 /\ receipt'.op = "top_up_wallet"
           /\ top_up_wallet(u, a))
             => LET i == find_user(u) IN
                IF a <= 0
                THEN /\ receipt'.outcome = "InvalidAmount"
                     /\ users' = users
                ELSE /\ receipt'.outcome = "ok"
                     /\ users' = [users EXCEPT ![i].wallet_balance =
                           @ + a + (IF a >= 10000 THEN (a * 2) \div 100
                                    ELSE 0)]
                     /\ transactions' = transactions /\ stats' = stats]_vars

C15_Witness ==
    /\ receipt.op = "top_up_wallet" /\ receipt.outcome = "ok"
    /\ receipt.final_amount = 10200
    /\ users[1].wallet_balance = 9999 + 10200

\* The student, loyalty-percentage and redemption parts of a discount
NonBulkComponents(user, liters) ==
    (IF user.is_student THEN ((liters * 2) * 10) \div 100 ELSE 0)
    + (IF user.total_spent >= 5000 THEN (user.total_spent * 5) \div 100
       ELSE 0)
    + (IF user.loyalty_points >= 100 THEN 500 ELSE 0)

\* C16: the bulk part of a discount is an exact step function of the
\* quantity: below 10 litres 0, from 10 to below 15 litres 2.00, from 15 to
\* below 20 litres 3.00, from 20 litres 4.00.
C16_BulkTiersAreExactSteps ==
    [][\A u \in UserIdChoices, l \in AllLiters, c \in {1, 2} :
          (PurchaseStep(u, l, c) /\ DiscountEngineRuns(users[find_user(u)], c))
             => LET bulk == receipt'.discount
                             - NonBulkComponents(users[find_user(u)], l)
                IN  /\ l < 1000 => bulk = 0
                    /\ (1000 <= l /\ l < 1500) => bulk = 200
                    /\ (1500 <= l /\ l < 2000) => bulk = 300
                    /\ l >= 2000 => bulk = 400]_vars

C16_Witness ==
    /\ receipt.op = "purchase_water" /\ receipt.outcome = "ok"
    /\ receipt.liters = 1500 /\ receipt.discount = 300
    /\ Len(transactions) = 2
    /\ transactions[1].liters = 1499 /\ transactions[1].discount_applied = 200

\* C17: a user who is no student, has spent less than 50.00 and holds fewer
\* than 100 points gets a discount of exactly 0 on less than 10 litres, and
\* the computation takes no points from the user.
C17_NoDiscountWithoutEntitlement ==
    [][\A u \in UserIdChoices, l \in AllLiters, c \in {1, 2} :
          (/\ PurchaseStep(u, l, c)
           /\ ~users[find_user(u)].is_student
           /\ users[find_user(u)].total_spent < 5000
           /\ users[find_user(u)].loyalty_points < 100
           /\ l < 1000)
             => /\ receipt'.discount = 0
                /\ users'[find_user(u)].loyalty_points
                      = users[find_user(u)].loyalty_points
                        + (IF receipt'.outcome = "ok" THEN (l * 2) \div 100
                           ELSE 0)]_vars

C17_Witness ==
    /\ receipt.op = "purchase_water" /\ receipt.outcome = "ok"
    /\ receipt.payment_method = "Digital" /\ receipt.liters = 999
    /\ receipt.discount = 0 /\ receipt.fee = 100
    /\ ~users[1].is_student
    /\ users[1].total_spent = 1998 + 1998 /\ users[1].loyalty_points = 38

\* C18: in every reachable state every registered user has a wallet
\* balance, a lifetime spending, a transaction count and a loyalty point
\* balance that are all at least 0.
C18_UserFieldsNonNegative ==
    \A i \in 1..user_count :
        /\ users[i].wallet_balance >= 0
        /\ users[i].total_spent >= 0
        /\ users[i].transaction_count >= 0
        /\ users[i].loyalty_points >= 0

C18_Witness ==
    /\ receipt.op = "purchase_water" /\ receipt.outcome = "ok"
    /\ receipt.payment_method = "Digital" /\ receipt.final_amount < 0
    /\ users[1].wallet_balance = - receipt.final_amount
    /\ users[1].loyalty_points < 100
    /\ users[1].transaction_count = 2

\* The users who hold a pass that has not expired
ActivePassHolders ==
    {i \in 1..user_count :
        /\ users[i].has_weekly_pass \/ users[i].has_monthly_pass
        /\ now < users[i].pass_expiry}

\* C19: in every reachable state the pass-holder counter of the analytics
\* equals the number of users who hold a pass that has not expired.
C19_PassHoldersCountsActivePasses ==
    stats.pass_holders = Cardinality(ActivePassHolders)

\* C20: the ledger is append-only and immutable: in every reachable state
\* record k carries id k, the user id of a registered user, and a time not
\* before that of the record in front of it; and no step changes or removes
\* a record that exists.
C20_LedgerAppendOnly ==
    /\ [](\A k \in 1..Len(transactions) :
             /\ transactions[k].transaction_id = k
             /\ \E i \in 1..Len(users) :
                   users[i].user_id = transactions[k].user_id
             /\ k > 1 => transactions[k - 1].timestamp
                            <= transactions[k].timestamp)
    /\ [][/\ Len(transactions') >= Len(transactions)
          /\ \A k \in 1..Len(transactions) :
                transactions'[k] = transactions[k]]_vars

C20_Witness ==
    /\ Len(transactions) = 2
    /\ stats.cash_transactions + stats.digital_transactions = 3
    /\ transactions[1].transaction_id = 1 /\ transactions[2].transaction_id = 2
    /\ transactions[1].timestamp < transactions[2].timestamp
    /\ receipt.op = "purchase_water" /\ receipt.outcome = "ok"
    /\ receipt.liters # transactions[2].liters

\* The ids held by registered users
RegisteredIds == {users[i].user_id : i \in 1..Len(users)}

\* C21: a successful purchase adds exactly its base cost (2.00 per litre) to
\* the user's total_spent and exactly 1 to the user's transaction_count; no
\* other step (top-up, pass purchase, failed purchase, registration, a
\* purchase of another user) changes them; so both never decrease.
C21_SpendingAndCountGrowOnlyByPurchases ==
    [][/\ \A u \in {receipt'.user_id}, l \in {receipt'.liters}, c \in {1, 2} :
            (receipt'.outcome = "ok" /\ PurchaseStep(u, l, c))
               => /\ users'[find_user(u)].total_spent
                        = users[find_user(u)].total_spent + l * 2
                  /\ users'[find_user(u)].transaction_count
                        = users[find_user(u)].transaction_count + 1
       /\ \A i \in 1..Len(users) :
            /\ users'[i].total_spent >= users[i].total_spent
            /\ users'[i].transaction_count >= users[i].transaction_count
            /\ (\/ users'[i].total_spent # users[i].total_spent
                \/ users'[i].transaction_count # users[i].transaction_count)
                  => /\ receipt'.op = "purchase_water"
                     /\ receipt'.outcome = "ok"
                     /\ receipt'.user_id = users[i].user_id
                     /\ \E c \in {1, 2} :
                           PurchaseStep(users[i].user_id, receipt'.liters, c)
      ]_vars

C21_Witness ==
    /\ Len(users) = 2
    /\ users[1].total_spent = 500 /\ users[1].transaction_count = 1
    /\ users[1].wallet_balance = 10200 - WEEKLY_PASS_COST
    /\ users[1].has_weekly_pass
    /\ users[2].total_spent = 10000 /\ users[2].transaction_count = 1
    /\ receipt.op = "purchase_water" /\ receipt.outcome = "ok"
    /\ receipt.user_id = 2

\* (A call of purchase_water leaves the user id it was given, and the
\* quantity unless the user is unknown, on the receipt: a step can only be
\* the call with these inputs.)
\* C22: a successful purchase adds 1 to the counter of its payment method
\* and to no other, and adds 1 to the bulk counter exactly when it is for 10
\* litres or more; a failed purchase (unknown user, quantity of 0 or less,
\* invalid payment method, insufficient funds) changes none of the three.
C22_PurchaseCountersFollowOutcome ==
    [][\A u \in {receipt'.user_id}, l \in {receipt'.liters},
          c \in PaymentChoices :
          (receipt'.op = "purchase_water" /\ purchase_water(u, l, c))
             => IF \/ u \notin RegisteredIds
                   \/ l <= 0
                   \/ c \notin {1, 2}
                   \/ receipt'.outcome = "InsufficientFunds"
                THEN /\ stats'.cash_transactions = stats.cash_transactions
                     /\ stats'.digital_transactions
                           = stats.digital_transactions
                     /\ stats'.bulk_purchases = stats.bulk_purchases
                ELSE /\ stats'.cash_transactions
                           = stats.cash_transactions
                             + (IF c = 1 THEN 1 ELSE 0)
                     /\ stats'.digital_transactions
                           = stats.digital_transactions
                             + (IF c = 2 THEN 1 ELSE 0)
                     /\ stats'.bulk_purchases
                           = stats.bulk_purchases
                             + (IF l >= 1000 THEN 1 ELSE 0)]_vars

C22_Witness ==
    /\ stats.cash_transactions = 1 /\ stats.digital_transactions = 1
    /\ stats.bulk_purchases = 1
    /\ Len(transactions) = 2
    /\ transactions[1].liters = 999 /\ transactions[1].payment_method = "Cash"
    /\ transactions[2].liters = 1000
    /\ transactions[2].payment_method = "Digital"
    /\ receipt.op = "purchase_water" /\ receipt.outcome = "ok"
    /\ receipt.liters = 1000

\* The student, bulk and redemption parts of a discount
NonLoyaltyComponents(user, liters) ==
    (IF user.is_student THEN ((liters * 2) * 10) \div 100 ELSE 0)
    + (IF liters >= 2000 THEN 400
       ELSE IF liters >= 1500 THEN 300
       ELSE IF liters >= 1000 THEN 200 ELSE 0)
    + (IF user.loyalty_points >= 100 THEN 500 ELSE 0)

\* C23: the loyalty percentage of a purchase is 5% of the user's total_spent
\* as it was before the purchase, given exactly when that amount is at least
\* 50.00; the cost of the purchase itself is added only afterwards, so the
\* purchase that first brings total_spent to 50.00 gets none.
C23_LoyaltyOnSpendingBeforePurchase ==
    [][\A u \in {receipt'.user_id}, l \in {receipt'.liters}, c \in {1, 2} :
          (PurchaseStep(u, l, c) /\ DiscountEngineRuns(users[find_user(u)], c))
             => LET before == users[find_user(u)].total_spent
                    loyalty == receipt'.discount
                                 - NonLoyaltyComponents(users[find_user(u)], l)
                IN  /\ before >= 5000 => loyalty = (before * 5) \div 100
                    /\ before < 5000 => loyalty = 0
                    /\ receipt'.outcome = "ok"
                          => users'[find_user(u)].total_spent = before + l * 2
      ]_vars

C23_Witness ==
    /\ Len(transactions) = 2
    /\ transactions[1].liters = 12500
    /\ transactions[1].discount_applied = 400
    /\ transactions[2].liters = 999
    /\ transactions[2].discount_applied = 1250 + 500
    /\ users[1].total_spent = 25000 + 1998
    /\ ~users[1].is_student

\* C24: a purchase for a user id that nobody holds, or with a payment choice
\* other than Cash (1) and Digital (2), changes no user field, no ledger
\* record and no analytics counter.
C24_RejectedPurchaseChangesNothing ==
    [][\A u \in {receipt'.user_id}, l \in {receipt'.liters},
          c \in PaymentChoices :
          (/\ receipt'.op = "purchase_water"
           /\ u \notin RegisteredIds \/ c \notin {1, 2}
           /\ purchase_water(u, l, c))
             => /\ users' = users
                /\ transactions' = transactions
                /\ stats' = stats]_vars

C24_Witness ==
    /\ receipt.op = "purchase_water"
    /\ receipt.outcome = "InvalidPaymentMethod"
    /\ receipt.liters = 500
    /\ users[1].loyalty_points = 100 /\ users[1].total_spent = 10000
    /\ Len(transactions) = 1
    /\ stats.cash_transactions + stats.digital_transactions = 1

\* C25: a registration creates a user whose id is the previous user count
\* plus 1, with wallet, total_spent, transaction_count and points 0 and no
\* pass, and leaves the existing users as they were; with MAX_USERS users
\* registered it is refused and changes nothing.  The ids are 1..user_count
\* in every state, and no step removes a user.
C25_RegistrationCreatesFreshUser ==
    /\ [](/\ Len(users) <= MAX_USERS
          /\ \A i \in 1..Len(users) : users[i].user_id = i)
    /\ [][/\ Len(users') >= Len(users)
          /\ \A i \in 1..Len(users) : users'[i].user_id = users[i].user_id
          /\ \A s \in BOOLEAN :
               (receipt'.op = "register_user" /\ register_user(s))
                  => /\ transactions' = transactions /\ stats' = stats
                     /\ IF Len(users) >= MAX_USERS
                        THEN users' = users /\ receipt'.outcome # "ok"
                        ELSE /\ Len(users') = Len(users) + 1
                             /\ \A i \in 1..Len(users) : users'[i] = users[i]
                             /\ LET new == users'[Len(users')]
                                IN  /\ new.user_id = Len(users) + 1
                                    /\ new.is_student = s
                                    /\ new.wallet_balance = 0
                                    /\ new.total_spent = 0
                                    /\ new.transaction_count = 0
                                    /\ new.loyalty_points = 0
                                    /\ ~new.has_weekly_pass
                                    /\ ~new.has_monthly_pass
                                    /\ new.pass_expiry = 0]_vars

C25_Witness ==
    /\ Len(users) = MAX_USERS
    /\ receipt.op = "register_user" /\ receipt.outcome = "LimitReached"
    /\ users[1].user_id = 1 /\ users[1].total_spent = 500
    /\ users[1].wallet_balance = 10200
    /\ users[2].user_id = 2 /\ users[2].wallet_balance = 0
    /\ users[2].total_spent = 0 /\ users[2].transaction_count = 0
    /\ users[2].loyalty_points = 0

\* C27: the final amount of every successful purchase is at least 0: the
\* receipt of a successful purchase shows no negative amount and no ledger
\* record holds one.
C27_FinalAmountNonNegative ==
    /\ (receipt.op = "purchase_water" /\ receipt.outcome = "ok")
          => receipt.final_amount >= 0
    /\ \A k \in 1..Len(transactions) : transactions[k].amount >= 0

\* C28: in every reachable state the analytics agree with the registry: the
\* total revenue is the sum of total_spent over all users, and the cash and
\* digital transaction counters together are the sum of transaction_count
\* over all users.
C28_AnalyticsAgreeWithRegistry ==
    /\ stats.total_revenue
          = SumSeq([i \in 1..Len(users) |-> users[i].total_spent])
    /\ stats.cash_transactions + stats.digital_transactions
          = SumSeq([i \in 1..Len(users) |-> users[i].transaction_count])

C28_Witness ==
    /\ Len(users) = 2
    /\ users[1].total_spent = 10000 /\ users[1].transaction_count = 1
    /\ users[2].total_spent = 500 /\ users[2].transaction_count = 1
    /\ stats.total_revenue = 10500
    /\ stats.cash_transactions = 1 /\ stats.digital_transactions = 1
    /\ stats.total_discounts_given > 0

\* C26: when the balance test and the deduction of a Digital purchase are
\* not one atomic section, the wallet can become negative (the witness), and
\* it does so only in a deduction whose call tested a balance that another
\* call has lowered since: a deduction that finds the wallet as its own test
\* saw it, as every call that runs to its end undisturbed does, leaves a
\* wallet of at least 0.
C26_NegativeWalletOnlyByInterleaving ==
    [][\A k \in Callers :
          (in_flight[k] # NoCall /\ in_flight'[k] = NoCall)
             => LET call == in_flight[k]
                    i == find_user(call.user_id)
                IN  /\ users[i].wallet_balance = call.seen_balance
                          => users'[i].wallet_balance >= 0
                    /\ users'[i].wallet_balance < 0
                          => users[i].wallet_balance < call.seen_balance
      ]_vars

C26_Witness ==
    /\ Len(users) = 1
    /\ users[1].wallet_balance < 0
    /\ stats.digital_transactions = 2
    /\ \A k \in Callers : in_flight[k] = NoCall

====
